---- MODULE Spec2Model ----
(***************************************************************************)
(* A model of msf_flow_luigi.py: the enrichment of one plume record        *)
(* (process_plume) and the merge of enriched records into the persistent   *)
(* output table (insert_plumes_in_file).                                   *)
(*                                                                         *)
(* Text is a sequence of one-character strings, so that Python's str       *)
(* comparison (by code point) can be computed.  A value of a record is     *)
(* either text or an integer; a CSV cell is text only.                     *)
(***************************************************************************)
EXTENDS Integers, Sequences, FiniteSets, TLC

VARIABLES file, bak, call, enr, run, lastGood, prevGood, recovery

vars == <<file, bak, call, enr, run, lastGood, prevGood, recovery>>

(***************************************************************************)
(* Bounds of the model.                                                    *)
(***************************************************************************)
MaxRows == 3
MaxNew == 2

(***************************************************************************)
(* Text and values.                                                        *)
(***************************************************************************)
Ord(c) ==
    CASE c = "-" -> 45 [] c = "." -> 46
      [] c = "0" -> 48 [] c = "1" -> 49 [] c = "2" -> 50 [] c = "3" -> 51
      [] c = "4" -> 52 [] c = "5" -> 53 [] c = "6" -> 54 [] c = "7" -> 55
      [] c = "8" -> 56 [] c = "9" -> 57
      [] c = "h" -> 104 [] c = "r" -> 114 [] c = "s" -> 115
      [] c = "w" -> 119 [] c = "x" -> 120

DigitChar(d) ==
    CASE d = 0 -> "0" [] d = 1 -> "1" [] d = 2 -> "2" [] d = 3 -> "3"
      [] d = 4 -> "4" [] d = 5 -> "5" [] d = 6 -> "6" [] d = 7 -> "7"
      [] d = 8 -> "8" [] d = 9 -> "9"

StrV(s) == [t |-> "str", n |-> 0, s |-> s]
IntV(n) == [t |-> "int", n |-> n, s |-> <<>>]

RECURSIVE Digits(_)
Digits(n) ==
    IF n < 10 THEN <<DigitChar(n)>>
    ELSE Digits(n \div 10) \o <<DigitChar(n % 10)>>

\* str(v), as csv.writer applies it to a cell that is not text.
PyStr(v) ==
    IF v.t = "str" THEN v.s
    ELSE IF v.n < 0 THEN <<"-">> \o Digits(0 - v.n)
    ELSE Digits(v.n)

\* a < b for two str objects: lexicographic, by code point.
RECURSIVE StrLess(_, _)
StrLess(a, b) ==
    IF b = <<>> THEN FALSE
    ELSE IF a = <<>> THEN TRUE
    ELSE IF Ord(Head(a)) < Ord(Head(b)) THEN TRUE
    ELSE IF Ord(Head(a)) > Ord(Head(b)) THEN FALSE
    ELSE StrLess(Tail(a), Tail(b))

(***************************************************************************)
(* Records: insertion-ordered mappings (dict / OrderedDict).               *)
(***************************************************************************)
F(k, v) == [k |-> k, v |-> v]

Keys(rec) == [j \in 1..Len(rec) |-> rec[j].k]
KeySet(rec) == {rec[j].k : j \in 1..Len(rec)}
Has(rec, k) == k \in KeySet(rec)
Get(rec, k) == rec[CHOOSE j \in 1..Len(rec) : rec[j].k = k].v

\* rec.update(<<item>>): an existing key keeps its place, a new key is appended.
Put(rec, item) ==
    IF Has(rec, item.k)
    THEN [j \in 1..Len(rec) |-> IF rec[j].k = item.k THEN item ELSE rec[j]]
    ELSE Append(rec, item)

RECURSIVE Update(_, _)
Update(rec, m) ==
    IF m = <<>> THEN rec ELSE Update(Put(rec, Head(m)), Tail(m))

\* Two records are the same mapping (key order aside).
SameMapping(r1, r2) ==
    /\ KeySet(r1) = KeySet(r2)
    /\ \A k \in KeySet(r1) : Get(r1, k) = Get(r2, k)

(***************************************************************************)
(* The output file and its backup: a header line and rows of cells.        *)
(***************************************************************************)
None == "None"

NoFile == [exists |-> FALSE, header |-> <<>>, rows |-> <<>>]

\* list(DictReader(fin)): every row keyed by the header, every value text.
DictReaderRows(f) ==
    [i \in 1..Len(f.rows) |->
        [j \in 1..Len(f.header) |-> F(f.header[j], StrV(f.rows[i][j]))]]

(***************************************************************************)
(* insert_plumes_in_file(plumes, fname, sort_by_key), piece by piece.      *)
(***************************************************************************)
NeedsInsertAlways(plumes) == TRUE

\* if len(plumes) > 0
NeedsInsert(plumes) == Len(plumes) > 0

MergeNewFirst(f, plumes) ==
    IF f.exists THEN plumes \o DictReaderRows(f) ELSE plumes

MergeNewOnly(f, plumes) == plumes

\* plumes = list(reader) + plumes, when the output file is a file.
MergeExisting(f, plumes) ==
    IF f.exists THEN DictReaderRows(f) \o plumes ELSE plumes

BackupNever(f, b) == b

\* copyfile(fname, fname + '.bak'), when the output file is a file: the
\* content of the backup after the call.
Backup(f, b) == IF f.exists THEN f ELSE b

\* sort_by_key is not None and sort_by_key in plumes[0]
SortKeyFound(pl, key) == key # None /\ pl # <<>> /\ Has(pl[1], key)

\* d[sort_by_key] raises KeyError for a record without the key.
SortRaises(pl, key) ==
    SortKeyFound(pl, key) /\ \E i \in 1..Len(pl) : ~Has(pl[i], key)

KeyLessByLength(a, b) ==
    Len(a.s) < Len(b.s) \/ (Len(a.s) = Len(b.s) /\ StrLess(a.s, b.s))

\* The comparison sorted() makes between two key values (both str).
KeyLess(a, b) == StrLess(a.s, b.s)

RECURSIVE InsertSorted(_, _, _)
InsertSorted(s, x, key) ==
    IF s = <<>> THEN <<x>>
    ELSE IF KeyLess(Get(x, key), Get(Head(s), key)) THEN <<x>> \o s
    ELSE <<Head(s)>> \o InsertSorted(Tail(s), x, key)

\* sorted(plumes, key=lambda d: d[sort_by_key]): a stable sort.
RECURSIVE Sorted(_, _, _)
Sorted(done, pl, key) ==
    IF pl = <<>> THEN done
    ELSE Sorted(InsertSorted(done, Head(pl), key), Tail(pl), key)

\* The list after the "Sort plume list if sort_by_key is provided" block.
SortPlumes(pl, key) ==
    IF SortKeyFound(pl, key) THEN Sorted(<<>>, pl, key) ELSE pl

\* field_names = list(plumes[0].keys()); the list is never empty here.
FieldNames(pl) == IF pl = <<>> THEN <<>> ELSE Keys(pl[1])

Range(s) == {s[j] : j \in 1..Len(s)}

RowFitsAlways(rec, fn) == TRUE

\* DictWriter.writerow raises ValueError (extrasaction='raise') for a record
\* with a key that is not a field name; the bare except skips the record.
RowFits(rec, fn) == KeySet(rec) \subseteq Range(fn)

\* The cells DictWriter writes: restval '' for a field the record lacks.
RowCells(rec, fn) ==
    [j \in 1..Len(fn) |->
        IF Has(rec, fn[j]) THEN PyStr(Get(rec, fn[j])) ELSE <<>>]

RECURSIVE WriteRows(_, _)
WriteRows(pl, fn) ==
    IF pl = <<>> THEN <<>>
    ELSE (IF RowFits(Head(pl), fn) THEN <<RowCells(Head(pl), fn)>> ELSE <<>>)
         \o WriteRows(Tail(pl), fn)

\* The output file after open(fname, 'w'), writeheader() and the row loop.
Rewritten(pl) ==
    [exists |-> TRUE, header |-> FieldNames(pl),
     rows |-> WriteRows(pl, FieldNames(pl))]

(***************************************************************************)
(* The records a caller passes: plumes as process_plumes returns them.     *)
(* "ID" stands for "Candidate ID", "T" for "Minimum Threshold (ppmm)",     *)
(* "W" for a wind statistic.                                               *)
(* The values of "ID" are text, as DictReader reads them.                  *)
(***************************************************************************)
Pool ==
    { <<F("ID", StrV(<<"9">>)), F("T", IntV(10))>>,
      <<F("ID", StrV(<<"1", "0">>)), F("T", IntV(10))>>,
      <<F("ID", StrV(<<"9">>)), F("T", IntV(25))>>,
      <<F("ID", StrV(<<"5">>))>>,
      <<F("W", IntV(3))>> }

PlumeLists == UNION {[1..n -> Pool] : n \in 0..MaxNew}

SortKeys == {None, "ID"}

NoCall ==
    [op |-> "none", plumes |-> <<>>, key |-> None, pre |-> NoFile,
     preBak |-> NoFile, raised |-> FALSE]

\* One call of insert_plumes_in_file.
InsertPlumes(plumes, key) ==
    /\ Len(file.rows) + Len(plumes) <= MaxRows
    /\ IF NeedsInsert(plumes)
       THEN LET merged == MergeExisting(file, plumes)
            IN /\ bak' = Backup(file, bak)
               /\ file' = IF SortRaises(merged, key) THEN file
                          ELSE Rewritten(SortPlumes(merged, key))
               /\ call' = [op |-> "insert", plumes |-> plumes, key |-> key,
                           pre |-> file, preBak |-> bak,
                           raised |-> SortRaises(merged, key)]
       ELSE /\ UNCHANGED <<file, bak>>
            /\ call' = [op |-> "insert", plumes |-> plumes, key |-> key,
                        pre |-> file, preBak |-> bak, raised |-> FALSE]
    /\ UNCHANGED <<enr, run, lastGood, prevGood, recovery>>

(***************************************************************************)
(* process_plume(plume, winds_dir, fill).  The wind classifier and the two *)
(* statistics functions are imported by the program; they are modelled     *)
(* here as pure functions of their arguments.                              *)
(***************************************************************************)
\* WindType(subdir): a keyword of the vocabulary in the name gives the type.
WindVocabulary ==
    { [kw |-> <<"h", "r">>, type |-> "hr", alts |-> {5, 10}],
      [kw |-> <<"w", "s">>, type |-> "ws", alts |-> {20}] }

Contains(name, kw) ==
    \E i \in 0..(Len(name) - Len(kw)) :
        \A j \in 1..Len(kw) : name[i + j] = kw[j]

WindType(subdir) ==
    IF \E w \in WindVocabulary : Contains(subdir, w.kw)
    THEN LET w == CHOOSE w \in WindVocabulary : Contains(subdir, w.kw)
         IN [unknown |-> FALSE, type |-> w.type, alts |-> w.alts]
    ELSE [unknown |-> TRUE, type |-> "unknown", alts |-> {}]

\* The field names of the statistics: one per wind type, or one per wind type
\* and altitude (wind statistics), one for all types or one per type
\* (emission rate), as the environment env has it.
WsField(type, alt, env) ==
    CASE env.wsShared /\ type = "hr" -> "ws_hr"
      [] env.wsShared /\ type = "ws" -> "ws_ws"
      [] ~env.wsShared /\ type = "hr" /\ alt = 5 -> "ws_hr_5"
      [] ~env.wsShared /\ type = "hr" /\ alt = 10 -> "ws_hr_10"
      [] ~env.wsShared /\ type = "ws" /\ alt = 20 -> "ws_ws_20"
      [] OTHER -> "ws_other"

ErField(type, env) ==
    CASE env.erShared -> "er"
      [] ~env.erShared /\ type = "hr" -> "er_hr"
      [] OTHER -> "er_ws"

AllAlts == UNION {w.alts : w \in WindVocabulary}

\* compute_wind_stats(plume, winds_subdir, fill, wind_type, wind_alt)
ComputeWindStats(plume, subdir, fill, type, alt, env) ==
    <<F(WsField(type, alt, env), IntV(alt))>>

RECURSIVE SumWind(_, _, _)
SumWind(plume, type, env) ==
    IF plume = <<>> THEN 0
    ELSE (IF \E a \in AllAlts : Head(plume).k = WsField(type, a, env)
          THEN Head(plume).v.n ELSE 0)
         + SumWind(Tail(plume), type, env)

\* compute_emission_rate(plume, wind_type, fill): from the wind statistics of
\* the type that the record holds, the fill value when it holds none.
ComputeEmissionRate(plume, type, fill, env) ==
    <<F(ErField(type, env),
        IF SumWind(plume, type, env) = 0 THEN fill
        ELSE IntV(SumWind(plume, type, env)))>>

\* fill=-9999, as main passes it.
Fill == IntV(0 - 9999)

HiddenNever(name) == FALSE

\* f.startswith('.')
Hidden(name) == name # <<>> /\ Head(name) = "."

RECURSIVE SortNames(_)
SortNames(S) ==
    IF S = {} THEN <<>>
    ELSE LET m == CHOOSE x \in S : \A y \in S : ~StrLess(y, x)
         IN <<m>> \o SortNames(S \ {m})

RECURSIVE SortAlts(_)
SortAlts(S) ==
    IF S = {} THEN <<>>
    ELSE LET m == CHOOSE x \in S : \A y \in S : x <= y
         IN <<m>> \o SortAlts(S \ {m})

\* sorted([f for f in os.listdir(winds_dir) if not f.startswith('.')])
ListedSubdirs(dir) == SortNames({n \in dir : ~Hidden(n)})

SkipUnknownNever(wt) == FALSE

\* wt.is_unknown(): the subdirectory is passed over.
SkipUnknown(wt) == wt.unknown

MergeEmissionAtOnce(st, er) == [st EXCEPT !.plume = Update(@, er)]

\* emission_stats.update(compute_emission_rate(...))
AccumulateEmission(st, er) == [st EXCEPT !.em = Update(@, er)]

\* for alt in alts: wind_stats = compute_wind_stats(...); plume.update(wind_stats)
RECURSIVE AltLoop(_, _, _, _, _)
AltLoop(st, subdir, type, alts, env) ==
    IF alts = <<>> THEN st
    ELSE LET ws == ComputeWindStats(st.plume, subdir, Fill, type, Head(alts), env)
             c == [fn |-> "ws", subdir |-> subdir, type |-> type,
                   alt |-> Head(alts), plume |-> st.plume]
         IN AltLoop([st EXCEPT !.plume = Update(@, ws), !.calls = Append(@, c)],
                    subdir, type, Tail(alts), env)

\* for subdir in sorted(...): the body of the loop over the wind types.
RECURSIVE SubdirLoop(_, _, _)
SubdirLoop(st, subdirs, env) ==
    IF subdirs = <<>> THEN st
    ELSE LET wt == WindType(Head(subdirs))
         IN IF SkipUnknown(wt) THEN SubdirLoop(st, Tail(subdirs), env)
            ELSE LET st1 == AltLoop(st, Head(subdirs), wt.type, SortAlts(wt.alts), env)
                     er == ComputeEmissionRate(st1.plume, wt.type, Fill, env)
                     c == [fn |-> "er", subdir |-> Head(subdirs), type |-> wt.type,
                           alt |-> 0, plume |-> st1.plume]
                     st2 == AccumulateEmission([st1 EXCEPT !.calls = Append(@, c)], er)
                 IN SubdirLoop(st2, Tail(subdirs), env)

\* process_plume: the record returned and the calls made, in order.
ProcessPlume(plume, dir, env) ==
    LET st == SubdirLoop([plume |-> plume, em |-> <<>>, calls |-> <<>>],
                         ListedSubdirs(dir), env)
    IN [plume |-> Update(st.plume, st.em), calls |-> st.calls]

\* The names a wind root may hold, and the records the Loader hands over.
DirNames ==
    { <<"h", "r">>, <<"w", "s">>, <<".", "h", "r">>, <<"x">>, <<".", "x">> }

LoadedPlumes ==
    { <<F("ID", StrV(<<"9">>)), F("T", IntV(10))>>,
      <<F("ID", StrV(<<"5">>))>> }

Envs == [wsShared : BOOLEAN, erShared : BOOLEAN]

NoEnrich ==
    [op |-> "none", plume |-> <<>>, dir |-> {}, env |-> [wsShared |-> FALSE, erShared |-> FALSE],
     out |-> <<>>, calls |-> <<>>]

\* One call of process_plume.
Enrich(plume, dir, env) ==
    /\ enr' = [op |-> "enrich", plume |-> plume, dir |-> dir, env |-> env,
               out |-> ProcessPlume(plume, dir, env).plume,
               calls |-> ProcessPlume(plume, dir, env).calls]
    /\ UNCHANGED <<file, bak, call, run, lastGood, prevGood, recovery>>

(***************************************************************************)
(* insert_plumes_in_file statement by statement, for runs that the process *)
(* may not survive: a run can be interrupted between any two statements,   *)
(* and what it had written to the disk by then stays there.                *)
(*   lastGood: the output file as the last completed run left it;          *)
(*   prevGood: what lastGood was before the run that completed after a     *)
(*   crash;                                                                *)
(*   recovery: "crashed" once a run was interrupted after it had opened    *)
(*   the output file for writing, "stale" once a later run has begun to    *)
(*   copy that file over the backup, "recovered" once a later run has      *)
(*   completed, "none" otherwise.                                          *)
(***************************************************************************)
BackupLast ==
    <<"read", "sort", "open", "header", "rows", "backup_open", "backup_copy">>

\* The statements of the body, in the order of the code.
StepOrder ==
    <<"read", "backup_open", "backup_copy", "sort", "open", "header", "rows">>

After(pc) ==
    LET i == CHOOSE j \in 1..Len(StepOrder) : StepOrder[j] = pc
    IN IF i = Len(StepOrder) THEN "close" ELSE StepOrder[i + 1]

\* A file just opened with mode 'w': it exists and is empty.
EmptyFile == [exists |-> TRUE, header |-> <<>>, rows |-> <<>>]

\* The lists of the interrupted runs: records of one input file and of
\* another with fewer columns, sorted by "Candidate ID" as main asks.
CrashPool ==
    { <<F("ID", StrV(<<"9">>)), F("T", IntV(10))>>,
      <<F("ID", StrV(<<"1", "0">>)), F("T", IntV(10))>>,
      <<F("ID", StrV(<<"5">>))>> }

CrashLists == UNION {[1..n -> CrashPool] : n \in 0..MaxNew}

NoRun ==
    [pc |-> "idle", plumes |-> <<>>, key |-> None, existed |-> FALSE,
     pre |-> NoFile, fn |-> <<>>, i |-> 0, opened |-> FALSE]

\* The call, with a non-empty list (an empty one changes nothing).
StartRun(plumes, key) ==
    /\ run.pc = "idle"
    /\ NeedsInsert(plumes)
    /\ Len(file.rows) + Len(plumes) <= MaxRows
    /\ run' = [NoRun EXCEPT !.pc = StepOrder[1], !.plumes = plumes, !.key = key]
    /\ recovery' = IF recovery = "recovered" THEN "none" ELSE recovery
    /\ UNCHANGED <<file, bak, call, enr, lastGood, prevGood>>

\* if os.path.isfile(fname): plumes = list(reader) + plumes
ReadExisting ==
    /\ run.pc = "read"
    /\ run' = [run EXCEPT !.pc = After("read"), !.existed = file.exists,
                          !.pre = file, !.plumes = MergeExisting(file, run.plumes)]
    /\ UNCHANGED <<file, bak, call, enr, lastGood, prevGood, recovery>>

\* copyfile opens the backup for writing ...
BackupOpen ==
    /\ run.pc = "backup_open"
    /\ bak' = IF run.existed THEN EmptyFile ELSE bak
    /\ recovery' = IF run.existed /\ recovery = "crashed" THEN "stale" ELSE recovery
    /\ run' = [run EXCEPT !.pc = After("backup_open")]
    /\ UNCHANGED <<file, call, enr, lastGood, prevGood>>

\* ... and copies the output file into it.
BackupCopy ==
    /\ run.pc = "backup_copy"
    /\ bak' = IF run.existed THEN file ELSE bak
    /\ run' = [run EXCEPT !.pc = After("backup_copy")]
    /\ UNCHANGED <<file, call, enr, lastGood, prevGood, recovery>>

\* The sort block and field_names; a KeyError ends the run.
SortStep ==
    /\ run.pc = "sort"
    /\ run' = IF SortRaises(run.plumes, run.key) THEN NoRun
              ELSE [run EXCEPT !.pc = After("sort"),
                               !.plumes = SortPlumes(run.plumes, run.key),
                               !.fn = FieldNames(SortPlumes(run.plumes, run.key))]
    /\ UNCHANGED <<file, bak, call, enr, lastGood, prevGood, recovery>>

\* with open(fname, 'w') as fout
OpenForWrite ==
    /\ run.pc = "open"
    /\ file' = EmptyFile
    /\ run' = [run EXCEPT !.pc = After("open"), !.opened = TRUE]
    /\ UNCHANGED <<bak, call, enr, lastGood, prevGood, recovery>>

\* writer.writeheader()
WriteHeader ==
    /\ run.pc = "header"
    /\ file' = [file EXCEPT !.header = run.fn]
    /\ run' = [run EXCEPT !.pc = After("header"), !.i = 1]
    /\ UNCHANGED <<bak, call, enr, lastGood, prevGood, recovery>>

\* One turn of the loop: writer.writerow(plume), or the except branch.
WriteRow ==
    /\ run.pc = "rows"
    /\ run.i <= Len(run.plumes)
    /\ file' = [file EXCEPT !.rows = @ \o WriteRows(<<run.plumes[run.i]>>, run.fn)]
    /\ run' = [run EXCEPT !.i = @ + 1]
    /\ UNCHANGED <<bak, call, enr, lastGood, prevGood, recovery>>

EndRows ==
    /\ run.pc = "rows"
    /\ run.i > Len(run.plumes)
    /\ run' = [run EXCEPT !.pc = After("rows")]
    /\ UNCHANGED <<file, bak, call, enr, lastGood, prevGood, recovery>>

\* The run returns.
Close ==
    /\ run.pc = "close"
    /\ run' = NoRun
    /\ prevGood' = IF recovery \in {"crashed", "stale"} THEN lastGood ELSE NoFile
    /\ lastGood' = file
    /\ recovery' = IF recovery \in {"crashed", "stale"} THEN "recovered" ELSE "none"
    /\ UNCHANGED <<file, bak, call, enr>>

\* The process is interrupted.
Crash ==
    /\ run.pc # "idle"
    /\ run' = NoRun
    /\ recovery' = IF run.opened /\ recovery = "none" THEN "crashed" ELSE recovery
    /\ UNCHANGED <<file, bak, call, enr, lastGood, prevGood>>

Init ==
    /\ file = NoFile
    /\ bak = NoFile
    /\ call = NoCall
    /\ enr = NoEnrich
    /\ run = NoRun
    /\ lastGood = NoFile
    /\ prevGood = NoFile
    /\ recovery = "none"

Next == \E plumes \in PlumeLists, key \in SortKeys : InsertPlumes(plumes, key)

Spec == Init /\ [][Next]_vars

EnrichNext ==
    \E plume \in LoadedPlumes, dir \in SUBSET DirNames, env \in Envs :
        Enrich(plume, dir, env)

EnrichSpec == Init /\ [][EnrichNext]_vars

CrashNext ==
    \/ \E plumes \in CrashLists : StartRun(plumes, "ID")
    \/ ReadExisting
    \/ BackupOpen
    \/ BackupCopy
    \/ SortStep
    \/ OpenForWrite
    \/ WriteHeader
    \/ WriteRow
    \/ EndRows
    \/ Close
    \/ Crash

CrashSpec == Init /\ [][CrashNext]_vars

(***************************************************************************)
(* Vocabulary of the properties of insert_plumes_in_file.                  *)
(***************************************************************************)
Inserted == call.op = "insert"

\* The rows a file holds, as records.
RowsOf(f) == DictReaderRows(f)

\* A record as it reads once written: every value text.
AsText(rec) == [j \in 1..Len(rec) |-> F(rec[j].k, StrV(PyStr(rec[j].v)))]

\* The existing-then-new list of the last call, before any sort.
CallList == RowsOf(call.pre) \o call.plumes

HoldsRow(f, rec) == \E i \in 1..Len(f.rows) : SameMapping(RowsOf(f)[i], rec)

\* Some row of the file has every field of the record, with the same value.
KeepsRow(f, rec) ==
    \E i \in 1..Len(f.rows) :
        \A k \in KeySet(rec) :
            Has(RowsOf(f)[i], k) /\ Get(RowsOf(f)[i], k) = Get(rec, k)

Count(recs, rec) == Cardinality({i \in 1..Len(recs) : SameMapping(recs[i], rec)})

\* The file holds exactly the records of the list plumes, in any order.
HoldsExactly(f, plumes) ==
    /\ f.exists
    /\ Len(f.rows) = Len(plumes)
    /\ \A i \in 1..Len(plumes) :
          Count(RowsOf(f), AsText(plumes[i]))
              = Count([j \in 1..Len(plumes) |-> AsText(plumes[j])], AsText(plumes[i]))

\* a < b in the lexicographic order of code points, without recursion.
LexLt(a, b) ==
    \E i \in 1..(Len(b)) :
        /\ i <= Len(a) + 1
        /\ \A j \in 1..(i - 1) : a[j] = b[j]
        /\ (i = Len(a) + 1 \/ Ord(a[i]) < Ord(b[i]))

Perms(n) == {p \in [1..n -> 1..n] : \A i, j \in 1..n : p[i] = p[j] => i = j}

\* out is the stable sort of src by the text of the field key.
IsStableSort(out, src, key) ==
    /\ Len(out) = Len(src)
    /\ \E p \in Perms(Len(src)) :
          /\ \A i \in 1..Len(src) : SameMapping(out[i], AsText(src[p[i]]))
          /\ \A i, j \in 1..Len(src) :
                i < j => /\ ~LexLt(Get(src[p[j]], key).s, Get(src[p[i]], key).s)
                         /\ (Get(src[p[i]], key) = Get(src[p[j]], key) => p[i] < p[j])

\* C1 as stated: whenever the output file existed before a call, whatever the
\* list of new records, <path>.bak exists after it and equals the file's
\* content before the call.
C1_BackupWhateverTheList ==
    (Inserted /\ call.pre.exists) => (bak.exists /\ bak = call.pre)

\* C1 amended: whenever the output file existed before a call with a non-empty
\* list of new records, <path>.bak exists after the call and equals the file's
\* content before the call, also when the sort raises.
C1_BackupOnInsert ==
    (Inserted /\ call.pre.exists /\ call.plumes # <<>>)
        => (bak.exists /\ bak = call.pre)

C1_Witness ==
    /\ Inserted /\ call.pre.exists /\ call.plumes # <<>>
    /\ call.preBak # call.pre
    /\ file # call.pre

\* C2: after a call with a non-empty list on an existing output file, every
\* row the file held before the call is still a row of the file (with all
\* the fields and values it had), whatever the fields of the records.
C2_PriorRowsKept ==
    (Inserted /\ call.pre.exists /\ call.plumes # <<>>)
        => \A i \in 1..Len(call.pre.rows) : KeepsRow(file, RowsOf(call.pre)[i])

\* C3 as stated: when the file already holds exactly the records of the list
\* N, a call with N leaves the set of rows and the number of rows unchanged.
C3_RowsAndCountUnchanged ==
    (Inserted /\ HoldsExactly(call.pre, call.plumes))
        => /\ \A i \in 1..Len(file.rows) : HoldsRow(call.pre, RowsOf(file)[i])
           /\ \A i \in 1..Len(call.pre.rows) : HoldsRow(file, RowsOf(call.pre)[i])
           /\ Len(file.rows) = Len(call.pre.rows)

\* C3 amended: when the file already holds exactly the records of the list N,
\* a call with N leaves the set of distinct rows unchanged, but not their
\* number: every record of N is written once more, so each row occurs twice
\* as often and the file holds 2|N| rows.
C3_RowSetUnchangedCountDoubled ==
    (Inserted /\ HoldsExactly(call.pre, call.plumes))
        => /\ \A i \in 1..Len(file.rows) : HoldsRow(call.pre, RowsOf(file)[i])
           /\ \A i \in 1..Len(call.pre.rows) :
                 Count(RowsOf(file), RowsOf(call.pre)[i])
                     = 2 * Count(RowsOf(call.pre), RowsOf(call.pre)[i])
           /\ Len(file.rows) = 2 * Len(call.plumes)

C3_Witness ==
    /\ Inserted /\ HoldsExactly(call.pre, call.plumes)
    /\ call.plumes # <<>>
    /\ \E i \in 1..Len(call.plumes) : call.plumes[i] # AsText(call.plumes[i])
    /\ file # call.pre

\* C4: a call with an empty list changes neither the output file nor
\* <path>.bak, and creates neither.
C4_EmptyListNoOp ==
    (Inserted /\ call.plumes = <<>>) => (file = call.pre /\ bak = call.preBak)

C4_Witness ==
    /\ Inserted /\ call.plumes = <<>>
    /\ call.pre.exists /\ call.pre.rows # <<>>
    /\ call.preBak # call.pre

C5_Case ==
    /\ Inserted /\ call.pre.exists /\ call.plumes # <<>>
    /\ call.key # None
    /\ \A i \in 1..Len(CallList) :
          /\ KeySet(CallList[i]) = KeySet(CallList[1])
          /\ Has(CallList[i], call.key)

\* C5: when the file holds rows E, the list N is non-empty, all records have
\* the same field names and the sort key is given and in every record, the
\* rewritten file holds |E|+|N| rows: the stable sort of E followed by N by
\* string comparison of the key.
C5_MergeIsStableSort ==
    C5_Case => /\ Len(file.rows) = Len(call.pre.rows) + Len(call.plumes)
               /\ IsStableSort(RowsOf(file), CallList, call.key)

C5_Witness ==
    /\ C5_Case
    /\ Len(call.pre.rows) >= 1
    /\ \E i \in 1..Len(call.pre.rows), j \in 1..Len(call.plumes) :
          /\ Get(RowsOf(call.pre)[i], call.key) = Get(call.plumes[j], call.key)
          /\ ~SameMapping(RowsOf(call.pre)[i], AsText(call.plumes[j]))
    /\ \E j \in 1..Len(call.plumes) :
          /\ LexLt(Get(call.plumes[j], call.key).s, Get(RowsOf(call.pre)[1], call.key).s)
          /\ Len(Get(call.plumes[j], call.key).s) > Len(Get(RowsOf(call.pre)[1], call.key).s)

\* The list the last call wrote from: merged, and sorted when the key is found.
CallFinalList == SortPlumes(CallList, call.key)

CallHeader == Keys(CallFinalList[1])

Wrote == Inserted /\ call.plumes # <<>> /\ ~call.raised

Matches(rec) == KeySet(rec) = Range(CallHeader)

NoExtra(rec) == KeySet(rec) \subseteq Range(CallHeader)

\* C6 as stated: of the merged list, exactly the records whose field names
\* match the header (nothing missing, nothing extra) are written, in list
\* order; the others are skipped.
C6_MismatchSkipped ==
    Wrote => LET kept == SelectSeq(CallFinalList, Matches)
             IN /\ file.header = CallHeader
                /\ Len(file.rows) = Len(kept)
                /\ \A i \in 1..Len(kept) : SameMapping(RowsOf(file)[i], AsText(kept[i]))

\* C6 amended: a record with a field that is not in the header is skipped and
\* the call does not fail; every other record is written, in list order, and
\* a record that lacks a header field is written too, with an empty cell for
\* each field it lacks.
C6_ExtraSkippedMissingBlank ==
    Wrote => LET kept == SelectSeq(CallFinalList, NoExtra)
             IN /\ file.exists
                /\ file.header = CallHeader
                /\ Len(file.rows) = Len(kept)
                /\ \A i \in 1..Len(kept) : \A j \in 1..Len(CallHeader) :
                      file.rows[i][j] =
                          IF Has(kept[i], CallHeader[j])
                          THEN PyStr(Get(kept[i], CallHeader[j])) ELSE <<>>

C6_Witness ==
    /\ Wrote
    /\ Len(CallFinalList) = 3
    /\ Matches(CallFinalList[1])
    /\ \E i \in 2..3 : ~NoExtra(CallFinalList[i])
    /\ \E i \in 2..3 : NoExtra(CallFinalList[i]) /\ ~Matches(CallFinalList[i])
    /\ Len(file.rows) = 2

\* C7: when the requested sort key is absent from a record of the merged
\* list, the first or any other, the call does not raise, keeps the list in
\* existing-then-new order and rewrites the output file.
C7_MissingKeyNotFatal ==
    (Inserted /\ call.plumes # <<>> /\ call.key # None
       /\ \E i \in 1..Len(CallList) : ~Has(CallList[i], call.key))
        => /\ ~call.raised
           /\ file = Rewritten(CallList)

(***************************************************************************)
(* Vocabulary of the properties of process_plume.                          *)
(***************************************************************************)
Enriched == enr.op = "enrich"

StartsWithDot(name) == Len(name) >= 1 /\ name[1] = "."

Recognized(name) == ~StartsWithDot(name) /\ ~WindType(name).unknown

NCalls == Len(enr.calls)

\* The mapping the i-th call of the log returned.
Returned(i) ==
    LET c == enr.calls[i]
    IN IF c.fn = "ws"
       THEN ComputeWindStats(c.plume, c.subdir, Fill, c.type, c.alt, enr.env)
       ELSE ComputeEmissionRate(c.plume, c.type, Fill, enr.env)

\* The record after the i-th call of the log: the one the next call is passed.
RecordAfter(i) == IF i = NCalls THEN enr.out ELSE enr.calls[i + 1].plume

ErCalls == {i \in 1..NCalls : enr.calls[i].fn = "er"}

\* C8: no statistics function is called for a subdirectory whose name starts
\* with a dot or that the classifier does not know, and a wind root of only
\* such subdirectories leaves the record as it was.
C8_UnknownAndHiddenContributeNothing ==
    Enriched =>
        /\ \A i \in 1..NCalls :
              /\ ~StartsWithDot(enr.calls[i].subdir)
              /\ ~WindType(enr.calls[i].subdir).unknown
        /\ (\A n \in enr.dir : ~Recognized(n)) => (enr.calls = <<>> /\ enr.out = enr.plume)

C8_Witness ==
    /\ Enriched
    /\ \A n \in enr.dir : ~Recognized(n)
    /\ \E n \in enr.dir : StartsWithDot(n) /\ ~WindType(n).unknown
    /\ \E n \in enr.dir : ~StartsWithDot(n) /\ WindType(n).unknown
    /\ enr.plume # <<>>

HeldRows(g) ==
    \/ \A i \in 1..Len(g.rows) : KeepsRow(file, RowsOf(g)[i])
    \/ \A i \in 1..Len(g.rows) : KeepsRow(bak, RowsOf(g)[i])

\* C10 as stated: with runs that may be interrupted, the rows the output
\* file held when the last completed run finished are always held in full by
\* the output file or by <path>.bak, and the rows it held before a crash are
\* still held so after the next run that follows the crash.
C10_RowsSurviveCrashAndNextRun ==
    /\ HeldRows(lastGood)
    /\ (recovery = "recovered" => HeldRows(prevGood))

\* C10 amended: in a call on an existing output file the copy to <path>.bak
\* is complete before the file is opened for writing; so the rows the output
\* file held when the last completed run finished are held in full by the
\* output file or by <path>.bak in every state up to the moment the next run
\* after a crash begins its own backup copy.  That copy replaces the backup
\* by the interrupted file: from then on the rows may be in neither file.
C10_BackupBeforeRewrite ==
    /\ (run.opened /\ run.existed) => bak = run.pre
    /\ (recovery # "stale") => HeldRows(lastGood)

C10_Witness ==
    /\ recovery = "crashed"
    /\ run.pc = "idle"
    /\ Len(lastGood.rows) >= 2
    /\ Len(file.rows) < Len(lastGood.rows)
    /\ \E i \in 1..Len(lastGood.rows) : ~KeepsRow(file, RowsOf(lastGood)[i])
    /\ bak = lastGood

====
